---- MODULE Spec2Model ----
(***************************************************************************)
(* Dancing Links matrix (src/dlx/dlmatrix.py) and Algorithm X              *)
(* (src/dlx/alg_x.py) as a state machine.                                  *)
(*                                                                         *)
(* Cells are numbered in allocation order: the matrix header is cell 0,    *)
(* the column headers follow in declaration order, body cells follow in    *)
(* the order add_sparse_row creates them.  The object graph is the record  *)
(* heap of field maps (heap.U[x] is x.U, and so on).                       *)
(***************************************************************************)
EXTENDS Integers, Sequences, FiniteSets, TLC

\* ------------------------------------------------------------------ bounds
MaxCols == 2      \* most columns a declaration has
MaxRows == 2      \* most rows inserted into one matrix
MaxCovers == 2    \* deepest nesting of direct cover() calls
MaxCalls == 2     \* most invocations of one solver object
MaxQueens == 4    \* largest board of the N-Queens example
DeepRows == 3     \* rows of the two-column matrices searched in depth

\* --------------------------------------------------------------- constants
None == -1                      \* Python's None where a cell reference is expected
NoIndexes == <<>>               \* Cell.indexes = None
NoColList == <<None>>           \* col_list = None, after end_add
root == 0                       \* self.header, the first cell allocated

Letters == <<"A", "B", "C", "D", "E", "F", "G", "H">>
Digits == <<"C0", "C1", "C2", "C3", "C4", "C5", "C6", "C7">>

VARIABLES
    heap,        \* the cells: field maps U, D, L, R, C, indexes, size, name, is_first
    rows,        \* DancingLinksMatrix.rows
    cols,        \* DancingLinksMatrix.cols
    col_list,    \* DancingLinksMatrix.col_list: sequence of headers, or None
    sol_dict,    \* AlgorithmX.sol_dict: depth -> cell
    stop,        \* AlgorithmX.stop
    choose_min,  \* AlgorithmX.choose_min
    stack,       \* the active _search frames, innermost last
    phase,       \* "build", "ready" (solver constructed), "search", "done"
    op,          \* the last operation called
    arg,         \* the arguments it was given
    err,         \* the exception it raised, or "none"
    result,      \* the header a selector called directly returned, or None
    emitted,     \* the callback invocations so far: [sol, ret, k, heap]
    covers,      \* direct cover() calls not yet undone: [c, before]
    decl,        \* the primary flag of every declared column
    added,       \* the index set of every row inserted so far
    clean,       \* no failed add_sparse_row has left cells behind
    heap0,       \* the matrix when the solver was last invoked
    calls        \* invocations of a solver: [sol_dict, stop] at entry, the
                 \* callbacks made before it, whether the matrix was rebuilt

vars == <<heap, rows, cols, col_list, sol_dict, stop, choose_min, stack, phase,
          op, arg, err, result, emitted, covers, decl, added, clean, heap0, calls>>

matrixVars == <<heap, rows, cols, col_list>>
solverVars == <<sol_dict, stop, choose_min, stack, emitted, heap0, calls>>

\* ------------------------------------------------------------------- cells
Cells(h) == DOMAIN h.U
Headers(h) == DOMAIN h.size \ {root}
Body(h) == Cells(h) \ DOMAIN h.size

NoCells ==
    [U |-> <<>>, D |-> <<>>, L |-> <<>>, R |-> <<>>, C |-> <<>>,
     indexes |-> <<>>, size |-> <<>>, name |-> <<>>, is_first |-> <<>>]

\* Cell.__init__: the new cell gets the next free number.
NewCell(h) ==
    LET id == Cardinality(DOMAIN h.U)
    IN  [h EXCEPT !.U = @ @@ (id :> id), !.D = @ @@ (id :> id),
                  !.L = @ @@ (id :> id), !.R = @ @@ (id :> id),
                  !.C = @ @@ (id :> None),
                  !.indexes = @ @@ (id :> NoIndexes)]

\* HeaderCell.__init__
NewHeaderCell(h, name) ==
    LET id == Cardinality(DOMAIN h.U)
        g == NewCell(h)
    IN  [g EXCEPT !.size = @ @@ (id :> 0), !.name = @ @@ (id :> name),
                  !.is_first = @ @@ (id :> FALSE)]

\* ------------------------------------------------------------ construction
\* A column declaration is an integer (int |-> TRUE, n) or a sequence of
\* entries; an entry is a bare name (tuple |-> FALSE) or a (name, primary)
\* pair (tuple |-> TRUE).
ColumnNames(columns) ==
    IF columns.int
    THEN [i \in 1..columns.n |-> [name |-> Digits[i], tuple |-> FALSE, primary |-> TRUE]]
    ELSE columns.seq

RECURSIVE CreateHeadersAllLinked(_, _)
\* the loop threading every header into the ring, primary or not
CreateHeadersAllLinked(st, column_names) ==
    IF st.cols >= Len(column_names) THEN st
    ELSE LET e == column_names[st.cols + 1]
             cell == Cardinality(DOMAIN st.heap.U)
             h1 == NewHeaderCell(st.heap, e.name)
             h2 == [h1 EXCEPT !.indexes[cell] = <<-1, st.cols>>,
                              !.is_first[cell] = FALSE]
             h3 == [h2 EXCEPT !.R[st.prev] = cell, !.L[cell] = st.prev]
         IN  CreateHeadersAllLinked([heap |-> h3,
                                     prev |-> cell,
                                     cols |-> st.cols + 1,
                                     col_list |-> Append(st.col_list, cell)],
                                    column_names)

RECURSIVE CreateHeaders(_, _)
\* The loop of _create_column_headers over the names not consumed yet;
\* self.cols counts the names consumed.
CreateHeaders(st, column_names) ==
    IF st.cols >= Len(column_names) THEN st
    ELSE LET e == column_names[st.cols + 1]
             primary == IF e.tuple THEN e.primary ELSE TRUE
             cell == Cardinality(DOMAIN st.heap.U)
             h1 == NewHeaderCell(st.heap, e.name)
             h2 == [h1 EXCEPT !.indexes[cell] = <<-1, st.cols>>,
                              !.is_first[cell] = FALSE]
             h3 == IF primary
                   THEN [h2 EXCEPT !.R[st.prev] = cell, !.L[cell] = st.prev]
                   ELSE h2
         IN  CreateHeaders([heap |-> h3,
                            prev |-> IF primary THEN cell ELSE st.prev,
                            cols |-> st.cols + 1,
                            col_list |-> Append(st.col_list, cell)],
                           column_names)

\* DancingLinksMatrix._create_column_headers
_create_column_headers(st, columns) ==
    LET r == CreateHeaders(st, ColumnNames(columns))
    IN  [r EXCEPT !.heap.R[r.prev] = root, !.heap.L[root] = r.prev]

\* DancingLinksMatrix.__init__
NewMatrix(columns) ==
    LET h1 == NewHeaderCell(NoCells, "<H>")
        h2 == [h1 EXCEPT !.is_first[root] = TRUE]
    IN  _create_column_headers(
            [heap |-> h2, prev |-> root, cols |-> 0, col_list |-> <<>>], columns)

EntryKinds ==
    {[tuple |-> FALSE, primary |-> TRUE], [tuple |-> TRUE, primary |-> TRUE],
     [tuple |-> TRUE, primary |-> FALSE]}

ColumnSpecs ==
    {[int |-> TRUE, n |-> n, seq |-> <<>>] : n \in 0..MaxCols}
    \cup
    UNION {{[int |-> FALSE, n |-> n,
             seq |-> [i \in 1..n |-> [name |-> Letters[i], tuple |-> f[i].tuple,
                                      primary |-> f[i].primary]]]
            : f \in [1..n -> EntryKinds]} : n \in 0..MaxCols}

\* ----------------------------------------------------------- row insertion
RECURSIVE Insert(_, _)
Insert(x, s) ==
    IF s = <<>> THEN <<x>>
    ELSE IF x <= Head(s) THEN <<x>> \o s
    ELSE <<Head(s)>> \o Insert(x, Tail(s))

\* sorted() that leaves the list as it is
sortedNot(row) == row

RECURSIVE sorted(_)
\* Python's sorted() on a list of integers.
sorted(row) == IF row = <<>> THEN <<>> ELSE Insert(Head(row), sorted(Tail(row)))

\* col_list indexed modulo its length: no index is out of range.
ColListGetWrapping(cl, ind) ==
    IF Len(cl) = 0 THEN None ELSE cl[(ind % Len(cl)) + 1]

\* self.col_list[ind]: a negative index counts from the end, anything outside
\* -len..len-1 raises IndexError (None here).
ColListGet(cl, ind) ==
    IF 0 <= ind /\ ind < Len(cl) THEN cl[ind + 1]
    ELSE IF ind < 0 /\ ind >= -Len(cl) THEN cl[Len(cl) + ind + 1]
    ELSE None

RECURSIVE AddCells(_, _, _, _, _, _, _)
\* The for loop of add_sparse_row over row[i..]; prev and start are None
\* until the first cell exists.
AddCells(h, cl, nrows, row, i, prev, start) ==
    IF i > Len(row) THEN [heap |-> h, err |-> "none", cell |-> prev, start |-> start]
    ELSE LET ind == row[i]
             cell == Cardinality(DOMAIN h.U)
             h1 == [NewCell(h) EXCEPT !.indexes[cell] = <<nrows, ind>>]
             h2 == IF prev # None
                   THEN [h1 EXCEPT !.R[prev] = cell, !.L[cell] = prev]
                   ELSE h1
             start2 == IF prev # None THEN start ELSE cell
             col == ColListGet(cl, ind)
         IN  IF col = None
             THEN \* the cell just created stays reachable only through prev.R
                  [heap |-> IF prev # None THEN h2 ELSE h, err |-> "IndexError",
                   cell |-> cell, start |-> start2]
             ELSE LET last == h2.U[col]
                      h3 == [h2 EXCEPT !.D[last] = cell]
                      h4 == [h3 EXCEPT !.U[cell] = last]
                      h5 == [h4 EXCEPT !.U[col] = cell]
                      h6 == [h5 EXCEPT !.D[cell] = col, !.C[cell] = col,
                                       !.size[col] = @ + 1]
                  IN  AddCells(h6, cl, nrows, row, i + 1, cell, start2)

\* add_sparse_row without its lines 170-171: the row is left open
add_sparse_row_open(h, cl, nrows, row, already_sorted) ==
    IF cl = NoColList
    THEN [heap |-> h, rows |-> nrows, err |-> "CannotAddRowsError"]
    ELSE LET srow == IF already_sorted THEN row ELSE sorted(row)
             r == AddCells(h, cl, nrows, srow, 1, None, None)
         IN  IF r.err # "none"
             THEN [heap |-> r.heap, rows |-> nrows, err |-> r.err]
             ELSE [heap |-> r.heap, rows |-> nrows + 1, err |-> "none"]

\* add_sparse_row without the test of col_list.
add_sparse_row_unguarded(h, cl, nrows, row, already_sorted) ==
    LET srow == IF already_sorted THEN row ELSE sorted(row)
        r == AddCells(h, cl, nrows, srow, 1, None, None)
    IN  IF r.err # "none"
        THEN [heap |-> r.heap, rows |-> nrows, err |-> r.err]
        ELSE IF r.start = None
        THEN [heap |-> r.heap, rows |-> nrows, err |-> "AttributeError"]
        ELSE [heap |-> [r.heap EXCEPT !.L[r.start] = r.cell, !.R[r.cell] = r.start],
              rows |-> nrows + 1, err |-> "none"]

\* DancingLinksMatrix.add_sparse_row: the matrix and the exception it ends with.
add_sparse_row(h, cl, nrows, row, already_sorted) ==
    IF cl = NoColList
    THEN [heap |-> h, rows |-> nrows, err |-> "CannotAddRowsError"]
    ELSE LET srow == IF already_sorted THEN row ELSE sorted(row)
             r == AddCells(h, cl, nrows, srow, 1, None, None)
         IN  IF r.err # "none"
             THEN [heap |-> r.heap, rows |-> nrows, err |-> r.err]
             ELSE IF r.start = None
             THEN \* start.L = cell with start = None
                  [heap |-> r.heap, rows |-> nrows, err |-> "AttributeError"]
             ELSE [heap |-> [r.heap EXCEPT !.L[r.start] = r.cell, !.R[r.cell] = r.start],
                   rows |-> nrows + 1, err |-> "none"]

\* --------------------------------------------------------- cover / uncover
RECURSIVE CoverRowNoSize(_, _, _)
\* cover's inner loop without j.C.size -= 1
CoverRowNoSize(h, i, j) ==
    IF j = i THEN h
    ELSE LET h1 == [h EXCEPT !.U[h.D[j]] = h.U[j]]
             h2 == [h1 EXCEPT !.D[h1.U[j]] = h1.D[j]]
         IN  CoverRowNoSize(h2, i, h2.R[j])

RECURSIVE CoverRow(_, _, _)
\* for j in iterate_cell(i, "R"), from cell j on
CoverRow(h, i, j) ==
    IF j = i THEN h
    ELSE LET h1 == [h EXCEPT !.U[h.D[j]] = h.U[j]]
             h2 == [h1 EXCEPT !.D[h1.U[j]] = h1.D[j]]
             h3 == [h2 EXCEPT !.size[h2.C[j]] = @ - 1]
         IN  CoverRow(h3, i, h3.R[j])

RECURSIVE CoverColOwn(_, _, _)
\* the outer loop of cover unlinking the cell of the covered column as well
CoverColOwn(h, c, i) ==
    IF i = c THEN h
    ELSE LET h0 == [h EXCEPT !.U[h.D[i]] = h.U[i]]
             h1 == [h0 EXCEPT !.D[h0.U[i]] = h0.D[i]]
             h2 == CoverRow(h1, i, h1.R[i])
         IN  CoverColOwn(h2, c, h2.D[i])

RECURSIVE CoverCol(_, _, _)
\* for i in iterate_cell(c, "D"), from cell i on
CoverCol(h, c, i) ==
    IF i = c THEN h
    ELSE LET h1 == CoverRow(h, i, h.R[i])
         IN  CoverCol(h1, c, h1.D[i])

\* cover that also makes the covered header point to itself
coverSelfLinking(h, c) ==
    LET h1 == [h EXCEPT !.L[h.R[c]] = h.L[c]]
        h2 == [h1 EXCEPT !.R[h1.L[c]] = h1.R[c]]
        h3 == [h2 EXCEPT !.L[c] = c, !.R[c] = c]
    IN  CoverCol(h3, c, h3.D[c])

\* cover that unlinks the header on one side only
coverOneSided(h, c) ==
    LET h1 == [h EXCEPT !.L[h.R[c]] = h.L[c]]
    IN  CoverCol(h1, c, h1.D[c])

\* cover without its first line: the header stays in the header ring
coverKeepingHeader(h, c) == CoverCol(h, c, h.D[c])

\* DancingLinksMatrix.cover
cover(h, c) ==
    LET h1 == [h EXCEPT !.L[h.R[c]] = h.L[c]]
        h2 == [h1 EXCEPT !.R[h1.L[c]] = h1.R[c]]
    IN  CoverCol(h2, c, h2.D[c])

RECURSIVE UncoverRowNoSize(_, _, _)
\* uncover's inner loop without j.C.size += 1
UncoverRowNoSize(h, i, j) ==
    IF j = i THEN h
    ELSE LET h2 == [h EXCEPT !.U[h.D[j]] = j]
             h3 == [h2 EXCEPT !.D[h2.U[j]] = j]
         IN  UncoverRowNoSize(h3, i, h3.L[j])

RECURSIVE UncoverRow(_, _, _)
\* for j in iterate_cell(i, "L"), from cell j on
UncoverRow(h, i, j) ==
    IF j = i THEN h
    ELSE LET h1 == [h EXCEPT !.size[h.C[j]] = @ + 1]
             h2 == [h1 EXCEPT !.U[h1.D[j]] = j]
             h3 == [h2 EXCEPT !.D[h2.U[j]] = j]
         IN  UncoverRow(h3, i, h3.L[j])

RECURSIVE UncoverCol(_, _, _)
\* for i in iterate_cell(c, "U"), from cell i on
UncoverCol(h, c, i) ==
    IF i = c THEN h
    ELSE LET h1 == UncoverRow(h, i, h.L[i])
         IN  UncoverCol(h1, c, h1.U[i])

\* uncover without its last line: the header stays out of the header ring.
uncoverNoRelink(h, c) == UncoverCol(h, c, h.U[c])

\* DancingLinksMatrix.uncover
uncover(h, c) ==
    LET h1 == UncoverCol(h, c, h.U[c])
        h2 == [h1 EXCEPT !.L[h1.R[c]] = c]
    IN  [h2 EXCEPT !.R[h2.L[c]] = c]

\* --------------------------------------------------------------- selectors
RECURSIVE MinWalkLast(_, _, _)
\* the walk that keeps the last of the smallest headers
MinWalkLast(h, col, col_min) ==
    IF col = root THEN col_min
    ELSE MinWalkLast(h, h.R[col],
                     IF ~h.is_first[col] /\ h.size[col] <= h.size[col_min]
                     THEN col ELSE col_min)

RECURSIVE MinWalk(_, _, _)
\* for col in iterate_cell(self.header, "R"), from cell col on
MinWalk(h, col, col_min) ==
    IF col = root THEN col_min
    ELSE MinWalk(h, h.R[col],
                 IF ~h.is_first[col] /\ h.size[col] < h.size[col_min]
                 THEN col ELSE col_min)

\* min_column without its test for the empty ring
min_columnUnchecked(h) == MinWalk(h, h.R[root], h.R[root])

\* DancingLinksMatrix.min_column; None stands for raising EmptyDLMatrix.
min_column(h) ==
    IF h.is_first[h.R[root]] THEN None
    ELSE MinWalk(h, h.R[root], h.R[root])

RECURSIVE Advance(_, _, _)
\* for _ in range(n): col = col.R
Advance(h, col, n) == IF n <= 0 THEN col ELSE Advance(h, h.R[col], n - 1)

\* random_column whose walk starts at the matrix header
random_columnFromRoot(h, n) ==
    IF h.R[root] = root THEN None
    ELSE LET col == Advance(h, root, n)
         IN  IF h.is_first[col] THEN h.R[col] ELSE col

\* random_column without the step past the matrix header
random_columnNoSkip(h, n) ==
    IF h.R[root] = root THEN None ELSE Advance(h, h.R[root], n)

\* DancingLinksMatrix.random_column with random.randint(0, cols - 1) = n;
\* None stands for raising EmptyDLMatrix.
random_column(h, n) ==
    IF h.R[root] = root THEN None
    ELSE LET col == Advance(h, h.R[root], n)
         IN  IF h.is_first[col] THEN h.R[col] ELSE col

\* ------------------------------------------------------ solution projector
RECURSIVE NamesFrom(_, _, _)
\* r.C.name for r in iterate_cell(row, "R"), from cell r on
NamesFrom(h, row, r) ==
    IF r = row THEN <<>>
    ELSE <<h.name[h.C[r]]>> \o NamesFrom(h, row, h.R[r])

\* _create_sol without the test of the depth
_create_solAll(h, sd, k) ==
    LET keys == DOMAIN sd
        last(i) == CHOOSE key \in keys :
                      /\ h.indexes[sd[key]][1] = i
                      /\ \A o \in keys : h.indexes[sd[o]][1] = i => o <= key
    IN  [i \in {h.indexes[sd[key]][1] : key \in keys} |->
            <<h.name[h.C[sd[last(i)]]]>> \o NamesFrom(h, sd[last(i)], h.R[sd[last(i)]])]

\* AlgorithmX._create_sol: a later stack entry with the same row index
\* replaces an earlier one, as a dict assignment does.
_create_sol(h, sd, k) ==
    LET keys == {key \in DOMAIN sd : key < k}
        last(i) == CHOOSE key \in keys :
                      /\ h.indexes[sd[key]][1] = i
                      /\ \A o \in keys : h.indexes[sd[o]][1] = i => o <= key
    IN  [i \in {h.indexes[sd[key]][1] : key \in keys} |->
            <<h.name[h.C[sd[last(i)]]]>> \o NamesFrom(h, sd[last(i)], h.R[sd[last(i)]])]

\* ------------------------------------------------------------------ search
\* the loop of lines 78-79 left out: the columns of the row stay uncovered
CoverRowColsSkipped(h, row, j) == h

RECURSIVE CoverRowCols(_, _, _)
\* for j in iterate_cell(row, "R"): self.matrix.cover(j.C), from cell j on
CoverRowCols(h, row, j) ==
    IF j = row THEN h
    ELSE LET h1 == cover(h, h.C[j]) IN CoverRowCols(h1, row, h1.R[j])

RECURSIVE UncoverRowCols(_, _, _)
\* for j in iterate_cell(row, "L"): self.matrix.uncover(j.C), from cell j on
UncoverRowCols(h, row, j) ==
    IF j = row THEN h
    ELSE LET h1 == uncover(h, h.C[j]) IN UncoverRowCols(h1, row, h1.L[j])

\* A frame of _search: its argument k, its locals col and row, the generator
\* iterate_cell(col, "D") of its for loop (cell, cur) and where it stands.
\* For the record it also keeps the matrix as the frame found it (found), the
\* number of callbacks made before it (seen), the cells of the column right
\* after its cover (ring) and the rows its loop has tried (tried).
NewFrame(k) ==
    [k |-> k, col |-> None, row |-> None, cell |-> None, cur |-> None, pc |-> "enter",
     found |-> NoCells, seen |-> 0, ring |-> <<>>, tried |-> <<>>]

RECURSIVE DownFrom(_, _, _, _)
\* The cells met following D from cell x until cell c, fuel cells at most.
DownFrom(h, c, x, fuel) ==
    IF x = c \/ fuel = 0 THEN <<>>
    ELSE <<x>> \o DownFrom(h, c, h.D[x], fuel - 1)

\* list(iterate_cell(c, "D"))
ColumnCells(h, c) == DownFrom(h, c, h.D[c], Cardinality(Cells(h)))

Top == stack[Len(stack)]
Front(s) == SubSeq(s, 1, Len(s) - 1)
SetTop(f) == [stack EXCEPT ![Len(stack)] = f]

\* a row loop that ends after its first row
GenNextOnce(h, f) == IF f.cur = None THEN h.D[f.cell] ELSE f.cell

\* a generator that starts again from the header at every call
GenNextRestart(h, f) == h.D[f.cell]

\* The next cell the generator of the top frame yields; its cell when exhausted.
GenNext(h, f) == IF f.cur = None THEN h.D[f.cell] ELSE h.D[f.cur]

\* ---------------------------------------------------------- initial states
Primary(columns) ==
    [i \in 1..Len(ColumnNames(columns)) |->
        IF ColumnNames(columns)[i].tuple THEN ColumnNames(columns)[i].primary ELSE TRUE]

Init ==
    \E columns \in ColumnSpecs :
        LET m == NewMatrix(columns)
        IN  /\ heap = m.heap
            /\ rows = 0
            /\ cols = m.cols
            /\ col_list = m.col_list
            /\ sol_dict = <<>>
            /\ stop = FALSE
            /\ choose_min = TRUE
            /\ stack = <<>>
            /\ phase = "build"
            /\ op = "__init__"
            /\ arg = <<columns>>
            /\ err = "none"
            /\ result = None
            /\ emitted = <<>>
            /\ covers = <<>>
            /\ decl = Primary(columns)
            /\ added = <<>>
            /\ clean = TRUE
            /\ heap0 = m.heap
            /\ calls = <<>>

\* ----------------------------------------------------------------- actions
Range(s) == {s[i] : i \in DOMAIN s}

\* The indices a caller passes: -1 and MaxCols are outside every declaration.
IndexDomain == (0 - 1)..MaxCols

DistinctSeqs(S) ==
    UNION {{r \in [1..n -> S] : \A i, j \in 1..n : i # j => r[i] # r[j]}
           : n \in 0..MaxCols}

\* d.add_sparse_row(row, already_sorted)
AddCall(row, already_sorted) ==
    /\ phase = "build" /\ covers = <<>>
    /\ LET r == add_sparse_row(heap, col_list, rows, row, already_sorted)
       IN  /\ heap' = r.heap
           /\ rows' = r.rows
           /\ err' = r.err
           /\ added' = IF r.err = "none" THEN Append(added, Range(row)) ELSE added
           /\ clean' = /\ clean
                       /\ IF r.err = "none"
                          THEN \A i \in DOMAIN row : row[i] \in 0..(cols - 1)
                          ELSE r.heap = heap
    /\ op' = "add_sparse_row" /\ arg' = row /\ result' = None
    /\ UNCHANGED <<cols, col_list, phase, covers, decl>>
    /\ UNCHANGED solverVars

\* add_sparse_row with a row of distinct indices inside 0..cols-1, in any
\* order; already_sorted is passed only with an ascending row.
AddRow ==
    /\ rows < MaxRows
    /\ \E row \in DistinctSeqs(0..(cols - 1)) \ {<<>>}, already_sorted \in BOOLEAN :
         /\ already_sorted => row = sorted(row)
         /\ AddCall(row, already_sorted)

\* add_sparse_row with any row of distinct indices, also after end_add; a
\* caller that got an exception calls end_add before it inserts again.
AddSparseRow ==
    /\ err = "none"
    /\ col_list # NoColList => clean /\ rows < MaxRows
    /\ \E row \in DistinctSeqs(IndexDomain), already_sorted \in BOOLEAN :
         /\ already_sorted => row = sorted(row)
         /\ AddCall(row, already_sorted)

\* end_add that also forgets the rows counted so far
end_addResetting(h, cl, nrows) == [heap |-> h, rows |-> 0, col_list |-> NoColList]

\* DancingLinksMatrix.end_add
end_add(h, cl, nrows) == [heap |-> h, rows |-> nrows, col_list |-> NoColList]

\* d.end_add(); op tells the first call from a call on a finalized matrix
EndAdd ==
    /\ phase = "build" /\ covers = <<>>
    /\ LET r == end_add(heap, col_list, rows)
       IN  /\ heap' = r.heap
           /\ rows' = r.rows
           /\ col_list' = r.col_list
    /\ op' = (IF col_list = NoColList THEN "end_add_again" ELSE "end_add")
    /\ arg' = <<>> /\ err' = "none" /\ result' = None
    /\ UNCHANGED <<cols, phase, covers, decl, added, clean>>
    /\ UNCHANGED solverVars

\* DancingLinksMatrix.cover(c) called directly on a header not covered yet
CoverCall ==
    /\ phase = "build" /\ clean /\ Len(covers) < MaxCovers
    /\ \E c \in Headers(heap) :
         /\ \A i \in DOMAIN covers : covers[i].c # c
         /\ heap' = cover(heap, c)
         /\ covers' = Append(covers, [c |-> c, before |-> heap])
    /\ op' = "cover" /\ arg' = <<>> /\ err' = "none" /\ result' = None
    /\ UNCHANGED <<rows, cols, col_list, phase, decl, added, clean>>
    /\ UNCHANGED solverVars

\* DancingLinksMatrix.uncover(c) of the header covered last
UncoverCall ==
    /\ phase = "build" /\ covers # <<>>
    /\ heap' = uncover(heap, covers[Len(covers)].c)
    /\ covers' = Front(covers)
    /\ op' = "uncover" /\ arg' = <<>> /\ err' = "none" /\ result' = None
    /\ UNCHANGED <<rows, cols, col_list, phase, decl, added, clean>>
    /\ UNCHANGED solverVars

\* d.min_column() called directly
MinColumnCall ==
    /\ phase = "build" /\ clean
    /\ result' = min_column(heap)
    /\ err' = (IF min_column(heap) = None THEN "EmptyDLMatrix" ELSE "none")
    /\ op' = "min_column" /\ arg' = <<>>
    /\ UNCHANGED <<matrixVars, phase, covers, decl, added, clean>>
    /\ UNCHANGED solverVars

\* d.random_column() called directly; arg is what random.randint returned,
\* which is not called when the ring is empty
RandomColumnCall ==
    /\ phase = "build" /\ clean
    /\ \E n \in (IF heap.R[root] = root THEN {0} ELSE 0..(cols - 1)) :
         /\ result' = random_column(heap, n)
         /\ err' = (IF random_column(heap, n) = None THEN "EmptyDLMatrix" ELSE "none")
         /\ arg' = (IF heap.R[root] = root THEN <<>> ELSE <<n>>)
    /\ op' = "random_column"
    /\ UNCHANGED <<matrixVars, phase, covers, decl, added, clean>>
    /\ UNCHANGED solverVars

\* AlgorithmX(d, callback, choose_min)
NewSolver ==
    /\ phase = "build" /\ covers = <<>> /\ clean
    /\ sol_dict' = <<>>
    /\ stop' = FALSE
    /\ \E cm \in BOOLEAN : choose_min' = cm
    /\ phase' = "ready"
    /\ op' = "AlgorithmX" /\ arg' = <<>> /\ err' = "none" /\ result' = None
    /\ UNCHANGED <<stack, emitted, heap0, calls>>
    /\ UNCHANGED <<matrixVars, covers, decl, added, clean>>

\* AlgorithmX.__call__
Enter ==
    /\ stack' = <<NewFrame(0)>>
    /\ phase' = "search"
    /\ heap0' = heap
    /\ calls' = Append(calls, [sol_dict |-> sol_dict, stop |-> stop,
                                at |-> Len(emitted), rebuilt |-> FALSE,
                                choose_min |-> choose_min])
    /\ op' = "__call__" /\ arg' = <<>> /\ err' = "none" /\ result' = None
    /\ UNCHANGED <<sol_dict, stop, choose_min, emitted>>
    /\ UNCHANGED <<matrixVars, covers, decl, added, clean>>

\* the first invocation of a solver
Call == phase = "ready" /\ Enter

\* a further invocation of a solver that has returned
CallAgain == phase = "done" /\ Len(calls) < MaxCalls /\ Enter

\* the selector ignoring choose_min
chooseRandom(h, cm, n) == random_column(h, n)

\* _search, lines 65-68: the column selector
choose(h, cm, n) == IF cm THEN min_column(h) ELSE random_column(h, n)

\* return from the top frame of _search
Return ==
    /\ stack' = Front(stack)
    /\ phase' = IF Len(stack) = 1 THEN "done" ELSE phase

\* the callback's result ignored
SetStopNever(s, ret) == s

\* _search, lines 61-62: if self.callback(...): self.stop = True
SetStop(s, ret) == IF ret THEN TRUE ELSE s

\* What the callback may return: anything, except that the run on a rebuilt
\* matrix is given the callback of the first run, which answers its j-th
\* invocation as it did then.
CallbackReturns ==
    LET c == calls[Len(calls)]
        j == Len(emitted) + 1 - c.at
    IN  IF c.rebuilt /\ j <= c.at THEN {emitted[j].ret} ELSE BOOLEAN

\* a termination check that never finds the matrix empty
SolvedNever(h) == FALSE

\* _search, line 59: self.matrix.header.R == self.matrix.header
Solved(h) == h.R[root] = root

\* _search, lines 59-63: the header ring is empty, the callback is called
SearchSolution ==
    /\ phase = "search" /\ Top.pc = "enter"
    /\ Solved(heap)
    /\ \E ret \in CallbackReturns :
         /\ emitted' = Append(emitted, [sol |-> _create_sol(heap, sol_dict, Top.k),
                                        ret |-> ret, k |-> Top.k, heap |-> heap])
         /\ stop' = SetStop(stop, ret)
    /\ Return
    /\ op' = "callback" /\ arg' = <<>> /\ result' = None
    /\ UNCHANGED <<sol_dict, choose_min, heap0, calls, err>>
    /\ UNCHANGED <<matrixVars, covers, decl, added, clean>>

\* _search, lines 65-72: a column is chosen and covered; an EmptyDLMatrix
\* raised by the selector leaves every frame of the search
SearchChoose ==
    /\ phase = "search" /\ Top.pc = "enter"
    /\ ~Solved(heap)
    /\ \E n \in 0..(cols - 1) :
         LET col == choose(heap, choose_min, n)
         IN  IF col = None
             THEN /\ heap' = heap
                  /\ stack' = <<>>
                  /\ phase' = "done"
                  /\ err' = "EmptyDLMatrix"
             ELSE /\ heap' = cover(heap, col)
                  /\ stack' = SetTop([Top EXCEPT !.col = col, !.row = heap'.D[col],
                                                 !.cell = col, !.cur = None,
                                                 !.pc = "loop",
                                                 !.found = heap,
                                                 !.seen = Len(emitted),
                                                 !.ring = ColumnCells(heap', col)])
                  /\ phase' = phase
                  /\ err' = err
    /\ op' = "choose" /\ arg' = <<>> /\ result' = None
    /\ UNCHANGED <<rows, cols, col_list>>
    /\ UNCHANGED <<sol_dict, stop, choose_min, emitted, heap0, calls>>
    /\ UNCHANGED <<covers, decl, added, clean>>

\* _search, lines 74-81: the loop takes the next row, covers its columns and
\* calls _search(k + 1)
SearchTryRow ==
    /\ phase = "search" /\ Top.pc = "loop"
    /\ GenNext(heap, Top) # Top.cell
    /\ LET row == GenNext(heap, Top)
       IN  /\ sol_dict' = (Top.k :> row) @@ sol_dict
           /\ heap' = CoverRowCols(heap, row, heap.R[row])
           /\ stack' = Append(SetTop([Top EXCEPT !.row = row, !.cur = row, !.pc = "ret",
                                                 !.tried = Append(@, row)]),
                              NewFrame(Top.k + 1))
    /\ op' = "try" /\ arg' = <<>> /\ result' = None
    /\ UNCHANGED <<rows, cols, col_list, phase, err>>
    /\ UNCHANGED <<stop, choose_min, emitted, heap0, calls>>
    /\ UNCHANGED <<covers, decl, added, clean>>

\* _search, line 92: the loop is exhausted, the column is uncovered
SearchExhausted ==
    /\ phase = "search" /\ Top.pc = "loop"
    /\ GenNext(heap, Top) = Top.cell
    /\ heap' = uncover(heap, Top.col)
    /\ Return
    /\ op' = "exhausted" /\ arg' = <<>> /\ result' = None
    /\ UNCHANGED <<rows, cols, col_list, err>>
    /\ UNCHANGED <<sol_dict, stop, choose_min, emitted, heap0, calls>>
    /\ UNCHANGED <<covers, decl, added, clean>>

\* a frame that unwinds its row and its column before it returns on stop
SearchStopReturnUnwinding ==
    /\ phase = "search" /\ Top.pc = "ret"
    /\ stop
    /\ LET row == sol_dict[Top.k]
       IN  heap' = uncover(UncoverRowCols(heap, row, heap.L[row]), heap.C[row])
    /\ Return
    /\ op' = "stopped" /\ arg' = <<>> /\ result' = None
    /\ UNCHANGED <<sol_dict, stop, choose_min, emitted, heap0, calls, err>>
    /\ UNCHANGED <<rows, cols, col_list, covers, decl, added, clean>>

\* _search, lines 82-83: the inner call has returned with stop set
SearchStopReturn ==
    /\ phase = "search" /\ Top.pc = "ret"
    /\ stop
    /\ Return
    /\ op' = "stopped" /\ arg' = <<>> /\ result' = None
    /\ UNCHANGED <<sol_dict, stop, choose_min, emitted, heap0, calls, err>>
    /\ UNCHANGED <<matrixVars, covers, decl, added, clean>>

\* _search, lines 85-90: the inner call has returned, the row is unwound
SearchUnwind ==
    /\ phase = "search" /\ Top.pc = "ret"
    /\ ~stop
    /\ LET row == sol_dict[Top.k]
           col == heap.C[row]
       IN  /\ heap' = UncoverRowCols(heap, row, heap.L[row])
           /\ stack' = SetTop([Top EXCEPT !.row = row, !.col = col, !.pc = "loop"])
    /\ op' = "unwind" /\ arg' = <<>> /\ result' = None
    /\ UNCHANGED <<rows, cols, col_list, phase, err>>
    /\ UNCHANGED <<sol_dict, stop, choose_min, emitted, heap0, calls>>
    /\ UNCHANGED <<covers, decl, added, clean>>

Search ==
    \/ SearchSolution
    \/ SearchChoose
    \/ SearchTryRow
    \/ SearchExhausted
    \/ SearchStopReturn
    \/ SearchUnwind

Next ==
    \/ AddRow
    \/ EndAdd
    \/ CoverCall
    \/ UncoverCall
    \/ NewSolver
    \/ Call
    \/ Search

Spec == Init /\ [][Next]_vars

\* The same program when a solver object is invoked more than once.
NextReuse == Next \/ CallAgain

SpecReuse == Init /\ [][NextReuse]_vars

RECURSIVE Ascending(_)
\* The indices of a row as an ascending list.
Ascending(S) ==
    IF S = {} THEN <<>>
    ELSE LET m == CHOOSE x \in S : \A y \in S : x <= y
         IN  <<m>> \o Ascending(S \ {m})

RECURSIVE AddRows(_, _, _)
\* for row in rows: d.add_sparse_row(row, already_sorted=True), from the
\* i-th row on; an exception ends the loop
AddRows(m, rowlist, i) ==
    IF i > Len(rowlist) THEN m
    ELSE LET r == add_sparse_row(m.heap, m.col_list, m.rows, rowlist[i], TRUE)
         IN  IF r.err # "none" THEN [m EXCEPT !.heap = r.heap]
             ELSE AddRows([m EXCEPT !.heap = r.heap, !.rows = r.rows],
                          rowlist, i + 1)

\* The matrix a program builds from the declaration columns and the
\* ascending rows rowlist.
Build(columns, rowlist) ==
    LET m == NewMatrix(columns)
    IN  AddRows([heap |-> m.heap, rows |-> 0, cols |-> m.cols,
                 col_list |-> m.col_list], rowlist, 1)

\* The declaration the matrix at hand was built from.
Declaration ==
    [int |-> FALSE, n |-> cols,
     seq |-> [i \in 1..cols |-> [name |-> heap.name[i], tuple |-> TRUE,
                                 primary |-> decl[i]]]]

\* A second run of the program: the matrix is built again from the same
\* declaration and the same rows, a new solver with the same selector and
\* the same callback is made and invoked.
Rerun ==
    /\ phase = "done" /\ Len(calls) = 1
    /\ LET m == Build(Declaration, [i \in DOMAIN added |-> Ascending(added[i])])
       IN  /\ heap' = m.heap
           /\ rows' = m.rows
           /\ cols' = m.cols
           /\ col_list' = (IF col_list = NoColList THEN NoColList ELSE m.col_list)
           /\ heap0' = m.heap
    /\ sol_dict' = <<>>
    /\ stop' = FALSE
    /\ stack' = <<NewFrame(0)>>
    /\ phase' = "search"
    /\ calls' = Append(calls, [sol_dict |-> <<>>, stop |-> FALSE,
                                at |-> Len(emitted), rebuilt |-> TRUE,
                                choose_min |-> choose_min])
    /\ op' = "rerun" /\ arg' = <<>> /\ err' = "none" /\ result' = None
    /\ UNCHANGED <<choose_min, emitted, covers, decl, added, clean>>

\* The program run twice on the same input.
NextTwice == Next \/ Rerun

SpecTwice == Init /\ [][NextTwice]_vars

\* The state of a program that has built a matrix from the declaration
\* columns and the ascending rows rowlist, and has called end_add or not.
Built(columns, rowlist, finalized) ==
    LET m == Build(columns, rowlist)
    IN  /\ heap = m.heap
        /\ rows = m.rows
        /\ cols = m.cols
        /\ col_list = (IF finalized THEN NoColList ELSE m.col_list)
        /\ sol_dict = <<>>
        /\ stop = FALSE
        /\ choose_min = TRUE
        /\ stack = <<>>
        /\ phase = "build"
        /\ op = (IF finalized THEN "end_add" ELSE "add_sparse_row")
        /\ arg = (IF finalized THEN <<>> ELSE rowlist[Len(rowlist)])
        /\ err = "none"
        /\ result = None
        /\ emitted = <<>>
        /\ covers = <<>>
        /\ decl = Primary(columns)
        /\ added = [i \in DOMAIN rowlist |-> Range(rowlist[i])]
        /\ clean = TRUE
        /\ heap0 = m.heap
        /\ calls = <<>>

\* A solver made for the matrix and invoked once.
NextSolve ==
    \/ NewSolver
    \/ Call
    \/ Search

\* alg_x.main: the rows of Knuth's example as dense rows
KnuthRows ==
    << <<0, 0, 1, 0, 1, 1, 0>>,
       <<1, 0, 0, 1, 0, 0, 1>>,
       <<0, 1, 1, 0, 0, 1, 0>>,
       <<1, 0, 0, 1, 0, 0, 0>>,
       <<0, 1, 0, 0, 0, 0, 1>>,
       <<0, 0, 0, 1, 1, 0, 1>> >>

\* the indices counted from 1
_from_denseOneBased(row) ==
    LET F[i \in 0..Len(row)] ==
            IF i = 0 THEN <<>>
            ELSE IF row[i] # 0 THEN Append(F[i - 1], i) ELSE F[i - 1]
    IN  F[Len(row)]

\* _from_dense: [i for i, el in enumerate(row) if el]
_from_dense(row) ==
    LET F[i \in 0..Len(row)] ==
            IF i = 0 THEN <<>>
            ELSE IF row[i] # 0 THEN Append(F[i - 1], i - 1) ELSE F[i - 1]
    IN  F[Len(row)]

\* max(s) of a non-empty list of integers
SeqMax(s) == CHOOSE x \in Range(s) : \A y \in Range(s) : y <= x

\* max(rows, key=max): the first row whose greatest index is the greatest
MaxByMax(rowlist) ==
    rowlist[CHOOSE i \in DOMAIN rowlist :
                /\ \A j \in DOMAIN rowlist : SeqMax(rowlist[j]) <= SeqMax(rowlist[i])
                /\ \A j \in 1..(i - 1) : SeqMax(rowlist[j]) < SeqMax(rowlist[i])]

\* string.ascii_uppercase[:size] as a declaration: one bare name per letter
AsciiUppercase(size) ==
    [int |-> FALSE, n |-> size,
     seq |-> [i \in 1..size |-> [name |-> Letters[i], tuple |-> FALSE,
                                 primary |-> TRUE]]]

\* alg_x.main up to the construction of the solver
InitKnuth ==
    LET rowlist == [i \in DOMAIN KnuthRows |-> _from_dense(KnuthRows[i])]
        size == SeqMax(MaxByMax(rowlist)) + 1
    IN  Built(AsciiUppercase(size), rowlist, FALSE)

SpecKnuth == InitKnuth /\ [][NextSolve]_vars

\* f"R{i}", f"F{i}", f"A{i}", f"B{i}" for i = 0, 1, ...
QueensR == <<"R0", "R1", "R2", "R3", "R4", "R5">>
QueensF == <<"F0", "F1", "F2", "F3", "F4", "F5">>
QueensA == <<"A0", "A1", "A2", "A3", "A4", "A5", "A6", "A7", "A8", "A9", "A10">>
QueensB == <<"B0", "B1", "B2", "B3", "B4", "B5", "B6", "B7", "B8", "B9", "B10">>

\* nqueens.get_names: ranks and files are bare names, diagonals are
\* (name, False) pairs
get_names(n) ==
    [i \in 1..n |-> [name |-> QueensR[i], tuple |-> FALSE, primary |-> TRUE]]
    \o [i \in 1..n |-> [name |-> QueensF[i], tuple |-> FALSE, primary |-> TRUE]]
    \o [i \in 1..(2 * n - 1) |->
            [name |-> QueensA[i], tuple |-> TRUE, primary |-> FALSE]]
    \o [i \in 1..(2 * n - 1) |->
            [name |-> QueensB[i], tuple |-> TRUE, primary |-> FALSE]]

\* compute_row without the second diagonal
compute_rowOneDiagonal(i, j, n) == <<i, n + j, 2 * n + i + j>>

\* nqueens.compute_row
compute_row(i, j, n) == <<i, n + j, 2 * n + i + j, 5 * n - 2 - i + j>>

\* nqueens.main: the rows in the order of the two nested loops
QueensRows(n) ==
    [x \in 1..(n * n) |-> compute_row((x - 1) \div n, (x - 1) % n, n)]

\* nqueens.main up to the construction of the solver, for every board size
\* size = int(sys.argv[1]) up to MaxQueens
InitQueens ==
    \E size \in 1..MaxQueens :
        Built([int |-> FALSE, n |-> Len(get_names(size)), seq |-> get_names(size)],
              QueensRows(size), TRUE)

\* AlgorithmX(d, p): choose_min is left at its default
DefaultSolver == NewSolver /\ choose_min'

\* nqueens.main from the construction of the solver on
NextQueens ==
    \/ DefaultSolver
    \/ Call
    \/ Search

SpecQueens == InitQueens /\ [][NextQueens]_vars

\* Matrices of two columns, declared in every way, with DeepRows ascending
\* non-empty rows: enough rows for a search that goes deeper on one branch
\* than the solution it finds on a later one.
InitDeep ==
    \E columns \in {c \in ColumnSpecs : c.n = 2},
       rowlist \in [1..DeepRows -> {<<0>>, <<1>>, <<0, 1>>}] :
        Built(columns, rowlist, FALSE)

SpecDeep == InitDeep /\ [][NextSolve]_vars

\* A step of _search can be taken: the top frame is at one of its three
\* positions, and at each of them one of the steps of Search has its guard
\* true (enter: SearchSolution or SearchChoose; loop: SearchTryRow or
\* SearchExhausted; ret: SearchStopReturn or SearchUnwind).
SearchEnabled ==
    /\ phase = "search" /\ stack # <<>>
    /\ \/ Top.pc = "enter" /\ (Solved(heap) \/ cols > 0)
       \/ Top.pc = "loop"
       \/ Top.pc = "ret"

\* The solver runs synchronously in the caller's thread and the callback
\* returns: a search that can take a step takes one.  This is
\* WF_vars(Search), with ENABLED <<Search>>_vars written as the state
\* predicate SearchEnabled.
SearchFair == []<>(~SearchEnabled) \/ []<><<Search>>_vars

SpecDeepLive == InitDeep /\ [][NextSolve]_vars /\ SearchFair

\* After a full search under the random selector the program is run again
\* with choose_min=True: the matrix is built again from the same declaration
\* and the same rows, a solver with the min-size selector is made and invoked.
RerunMin ==
    /\ phase = "done" /\ Len(calls) = 1 /\ ~choose_min /\ ~stop
    /\ LET m == Build(Declaration, [i \in DOMAIN added |-> Ascending(added[i])])
       IN  /\ heap' = m.heap
           /\ rows' = m.rows
           /\ cols' = m.cols
           /\ col_list' = (IF col_list = NoColList THEN NoColList ELSE m.col_list)
           /\ heap0' = m.heap
    /\ sol_dict' = <<>>
    /\ stop' = FALSE
    /\ choose_min' = TRUE
    /\ stack' = <<NewFrame(0)>>
    /\ phase' = "search"
    /\ calls' = Append(calls, [sol_dict |-> <<>>, stop |-> FALSE,
                                at |-> Len(emitted), rebuilt |-> TRUE,
                                choose_min |-> TRUE])
    /\ op' = "rerun_min" /\ arg' = <<>> /\ err' = "none" /\ result' = None
    /\ UNCHANGED <<emitted, covers, decl, added, clean>>

\* The program run under either selector, and under the min-size selector
\* after a run under the random selector.
NextBoth == NextSolve \/ RerunMin

SpecBoth == InitDeep /\ [][NextBoth]_vars

\* The list s without its q-th element.
Without(s, q) == SubSeq(s, 1, q - 1) \o SubSeq(s, q + 1, Len(s))

\* After a run under the min-size selector the program is run again without
\* one of the rows that hold secondary columns only: the matrix is built from
\* the same declaration and the other rows in the same order, a solver with
\* the same selector and the same callback is made and invoked.
RerunWithout ==
    /\ phase = "done" /\ Len(calls) = 1 /\ choose_min
    /\ \E q \in DOMAIN added :
         /\ \A c \in added[q] : ~decl[c + 1]
         /\ LET rest == Without(added, q)
                m == Build(Declaration, [i \in DOMAIN rest |-> Ascending(rest[i])])
            IN  /\ heap' = m.heap
                /\ rows' = m.rows
                /\ cols' = m.cols
                /\ col_list' = (IF col_list = NoColList THEN NoColList ELSE m.col_list)
                /\ heap0' = m.heap
                /\ added' = rest
         /\ calls' = Append(calls, [sol_dict |-> <<>>, stop |-> FALSE,
                                     at |-> Len(emitted), rebuilt |-> TRUE,
                                     choose_min |-> choose_min, without |-> q - 1])
    /\ sol_dict' = <<>>
    /\ stop' = FALSE
    /\ stack' = <<NewFrame(0)>>
    /\ phase' = "search"
    /\ op' = "rerun_without" /\ arg' = <<>> /\ err' = "none" /\ result' = None
    /\ UNCHANGED <<choose_min, emitted, covers, decl, clean>>

\* The program run with and without a row of secondary columns.
NextWithout == NextSolve \/ RerunWithout

SpecWithout == InitDeep /\ [][NextWithout]_vars

\* The builder, direct covers and the column selectors called directly.
NextSelect ==
    \/ AddRow
    \/ EndAdd
    \/ CoverCall
    \/ UncoverCall
    \/ MinColumnCall
    \/ RandomColumnCall

SpecSelect == Init /\ [][NextSelect]_vars

\* The builder alone, with every kind of row.
NextBuild == AddSparseRow \/ EndAdd

SpecBuild == Init /\ [][NextBuild]_vars

\* ------------------------------------------------------------------ claims
\* The exact covers of the rows inserted so far: sets of row indices that
\* hold every primary column once and every secondary column at most once.
Hits(S, c) == Cardinality({r \in S : c \in added[r + 1]})

IsExactCover(S) ==
    \A c \in 0..(Len(decl) - 1) :
        IF decl[c + 1] THEN Hits(S, c) = 1 ELSE Hits(S, c) <= 1

MathSolutions == {S \in SUBSET (0..(Len(added) - 1)) : IsExactCover(S)}

\* The header of column c is the (c+1)-th cell allocated.
ColumnName(c) == heap.name[c + 1]

KeySets == {DOMAIN emitted[i].sol : i \in DOMAIN emitted}

InverseLinks(h) ==
    \A x \in Cells(h) :
        /\ h.L[h.R[x]] = x /\ h.R[h.L[x]] = x
        /\ h.D[h.U[x]] = x /\ h.U[h.D[x]] = x

C2_Completeness ==
    (phase = "done" /\ choose_min /\ ~stop) => KeySets = MathSolutions

HasPrimary(r) == \E c \in added[r + 1] : decl[c + 1]

\* C2 amended: it has emitted exactly the exact covers of the input all of
\* whose rows hold a primary column.
C2_CompletenessOnPrimaryRows ==
    (phase = "done" /\ choose_min /\ ~stop) =>
        KeySets = {S \in MathSolutions : \A r \in S : HasPrimary(r)}

\* a finished full search of an input that has two exact covers, one of them
\* with a row of secondary columns only
C2_Witness ==
    /\ phase = "done" /\ choose_min /\ ~stop
    /\ Cardinality(MathSolutions) = 2
    /\ Len(emitted) = 1 /\ emitted[1].k = 1

\* C3: uncover(H) after cover(H), with covers of other headers in between
\* undone in reverse order, gives back every link and every size as they were
\* before cover(H); once all are undone the links are mutually inverse.
C3_CoverUncoverInverse ==
    /\ [][(covers # <<>> /\ covers' = Front(covers))
            => heap' = covers[Len(covers)].before]_vars
    /\ []((op = "uncover" /\ covers = <<>>) => InverseLinks(heap))

\* the inner uncover of two nested covers has run, on a column that holds rows
C3_Witness ==
    /\ op = "uncover" /\ Len(covers) = 1
    /\ rows = 2
    /\ \E c \in Headers(heap) : c # covers[1].c /\ covers[1].before.size[c] > heap.size[c]

\* C4: when the search has run to its end without the callback returning
\* true, the matrix is as it was when the solver was invoked, under either
\* selector.
C4_SearchRestores ==
    (phase = "done" /\ ~stop) => heap = heap0

\* a full search under the random selector that found a solution two rows deep
C4_Witness ==
    /\ phase = "done" /\ ~stop /\ ~choose_min
    /\ \E i \in DOMAIN emitted : emitted[i].k = 2

AllTrue == \A i \in DOMAIN emitted : emitted[i].ret

\* C5: the callback returning true sets stop; once stop is set the callback
\* is not called again, every step is the return of a frame; a callback that
\* always returns true has been called exactly once when the search of an
\* input with an exact cover has returned.
C5_StopAfterTrue ==
    /\ [](/\ stop <=> \E i \in DOMAIN emitted : emitted[i].ret
          /\ \A i \in DOMAIN emitted : emitted[i].ret => i = Len(emitted)
          /\ (phase = "done" /\ AllTrue /\ MathSolutions # {}) => Len(emitted) = 1)
    /\ [][stop => (emitted' = emitted /\ stack' = Front(stack))]_vars

\* a search stopped at the first of two exact covers, two frames deep
C5_Witness ==
    /\ phase = "done" /\ stop
    /\ Len(emitted) = 1 /\ emitted[1].k >= 1
    /\ Cardinality(MathSolutions) = 2

\* C6 as stated: after a stop the matrix is the one the callback saw, with an
\* empty header ring, and it is not the matrix the solver was invoked on.
C6_AbortedNotInitial ==
    (phase = "done" /\ stop) =>
        /\ heap = emitted[Len(emitted)].heap
        /\ heap.R[root] = root
        /\ heap # heap0

\* C6 amended: after a stop the matrix is the one the callback saw, with an
\* empty header ring; it differs from the matrix the solver was invoked on
\* exactly when a primary column was declared.
C6_AbortedLeftCovered ==
    (phase = "done" /\ stop) =>
        /\ heap = emitted[Len(emitted)].heap
        /\ heap.R[root] = root
        /\ (heap # heap0) <=> (\E c \in DOMAIN decl : decl[c])

\* a search stopped two frames deep
C6_Witness ==
    /\ phase = "done" /\ stop
    /\ emitted[Len(emitted)].k = 2
    /\ heap # heap0

\* C7: every invocation of the solver starts with an empty sol_dict and with
\* stop false.
C7_FreshEntry ==
    \A i \in DOMAIN calls : calls[i].sol_dict = <<>> /\ ~calls[i].stop

\* C8: once col_list is None, add_sparse_row raises CannotAddRowsError and
\* changes nothing of the matrix.
C8_BuilderClosed ==
    [][(col_list = NoColList /\ op' = "add_sparse_row")
         => (err' = "CannotAddRowsError" /\ UNCHANGED matrixVars)]_vars

\* a row of two indices refused by a closed matrix that holds two rows
C8_Witness ==
    /\ op = "add_sparse_row" /\ err = "CannotAddRowsError"
    /\ rows = 2 /\ Len(arg) = 2

\* C9: add_sparse_row of the empty row before end_add raises nothing.
C9_EmptyRowLegal ==
    (op = "add_sparse_row" /\ arg = <<>> /\ col_list # NoColList) => err = "none"

\* C10: add_sparse_row before end_add of a row that holds an index >= cols
\* raises IndexError.
C10_IndexOutOfRange ==
    (/\ op = "add_sparse_row" /\ col_list # NoColList
     /\ \E i \in DOMAIN arg : arg[i] >= cols)
        => err = "IndexError"

\* an unsorted row whose second index is out of range, on a matrix with columns
C10_Witness ==
    /\ op = "add_sparse_row" /\ err = "IndexError"
    /\ cols = 2 /\ Len(arg) = 2 /\ arg[1] >= cols /\ arg[2] \in 0..(cols - 1)

\* C11: no call of end_add changes a link, a header size, the row count or
\* the column count; every call leaves the matrix finalized, and a call on a
\* finalized matrix leaves the whole matrix as the first call left it.
C11_EndAddIdempotent ==
    [][(op' \in {"end_add", "end_add_again"})
         => (/\ col_list' = NoColList
             /\ UNCHANGED <<heap, rows, cols>>
             /\ (col_list = NoColList => UNCHANGED matrixVars))]_vars

\* end_add called on a finalized matrix that holds two rows
C11_Witness ==
    /\ op = "end_add_again" /\ col_list = NoColList
    /\ rows = 2 /\ cols = 2

RECURSIVE RingFrom(_, _)
\* The headers met walking R from cell c until the matrix header.
RingFrom(h, c) == IF c = root THEN <<>> ELSE <<c>> \o RingFrom(h, h.R[c])

HeaderRing(h) == RingFrom(h, h.R[root])

\* C12: on a non-empty header ring min_column raises nothing, changes
\* nothing of the matrix and returns a header of the ring whose size is the
\* smallest in the ring, the first such header on the walk from the root.
C12_MinColumn ==
    [][(op' = "min_column" /\ heap.R[root] # root)
         => (/\ err' = "none"
             /\ UNCHANGED matrixVars
             /\ LET ring == HeaderRing(heap)
                IN  \E i \in DOMAIN ring :
                      /\ ring[i] = result'
                      /\ \A j \in DOMAIN ring : heap.size[ring[j]] >= heap.size[result']
                      /\ \A j \in 1..(i - 1) : heap.size[ring[j]] > heap.size[result'])]_vars

\* two headers of the same size in the ring, the first is returned
C12_Witness ==
    /\ op = "min_column" /\ err = "none"
    /\ HeaderRing(heap) = <<1, 2>>
    /\ heap.size[1] = 1 /\ heap.size[2] = 1
    /\ result = 1

\* C13: on an empty header ring min_column and random_column raise
\* EmptyDLMatrix and change nothing of the matrix.
C13_EmptyRing ==
    [][(op' \in {"min_column", "random_column"} /\ heap.R[root] = root)
         => (err' = "EmptyDLMatrix" /\ UNCHANGED matrixVars)]_vars

\* min_column refused on a matrix with rows whose only primary column is
\* covered, beside a secondary column
C13_Witness ==
    /\ op = "min_column" /\ err = "EmptyDLMatrix"
    /\ decl = <<TRUE, FALSE>> /\ rows = 2
    /\ covers # <<>>

\* C14: on a non-empty header ring random_column, whatever number in
\* 0..cols-1 it draws, raises nothing and returns a primary header that is
\* in the ring, never the matrix header.
C14_RandomColumn ==
    [][(op' = "random_column" /\ heap.R[root] # root)
         => (/\ err' = "none"
             /\ UNCHANGED matrixVars
             /\ result' # root
             /\ result' \in Range(HeaderRing(heap))
             /\ decl[result'])]_vars

\* the number drawn is not smaller than the ring is long: the walk passes
\* the matrix header
C14_Witness ==
    /\ op = "random_column" /\ err = "none"
    /\ cols = 2 /\ Len(HeaderRing(heap)) = 1
    /\ arg = <<1>>
    /\ result = heap.R[root]

\* C15: under the min-size selector a second run, on a matrix built again
\* from the same declaration and the same rows in the same order, with a
\* callback that answers as in the first run, makes the same callback
\* invocations in the same order: never one more or a different one, and
\* all of them once it has returned.
C15_Deterministic ==
    (Len(calls) = 2 /\ calls[2].rebuilt /\ choose_min)
        => LET n == calls[2].at
           IN  /\ Len(emitted) <= 2 * n
               /\ \A j \in 1..(Len(emitted) - n) :
                     /\ emitted[n + j].sol = emitted[j].sol
                     /\ emitted[n + j].k = emitted[j].k
                     /\ emitted[n + j].ret = emitted[j].ret
               /\ (phase = "done" => Len(emitted) = 2 * n)

\* both runs have returned after two different solutions each
C15_Witness ==
    /\ Len(calls) = 2 /\ calls[2].rebuilt /\ choose_min
    /\ phase = "done"
    /\ calls[2].at = 2 /\ Len(emitted) = 4
    /\ emitted[3].sol # emitted[4].sol

\* The names passed in a mapping, row after row by ascending key.
RECURSIVE AllNames(_, _)
AllNames(sol, keys) ==
    IF keys = {} THEN <<>>
    ELSE LET m == CHOOSE x \in keys : \A y \in keys : x <= y
         IN  sol[m] \o AllNames(sol, keys \ {m})

\* C16: on Knuth's example every mapping passed to the callback has the keys
\* 0, 3 and 4 and its lists hold each of A..G once; the callback is called
\* once at most, and once when a search that was never stopped has returned.
C16_KnuthExample ==
    ~stop =>
        /\ Len(emitted) <= 1
        /\ \A i \in DOMAIN emitted :
              LET sol == emitted[i].sol
              IN  /\ DOMAIN sol = {0, 3, 4}
                  /\ Len(AllNames(sol, DOMAIN sol)) = 7
                  /\ Range(AllNames(sol, DOMAIN sol))
                        = {"A", "B", "C", "D", "E", "F", "G"}
        /\ (phase = "done" => Len(emitted) = 1)

\* the search under the min-size selector has returned, never stopped
C16_Witness ==
    /\ phase = "done" /\ ~stop /\ choose_min
    /\ rows = 6 /\ cols = 7
    /\ Len(emitted) = 1 /\ emitted[1].k = 3

\* C17: on the encoding of four queens (sixteen rows) a search that was
\* never stopped has called the callback twice when it returns, and never
\* more often before.
C17_FourQueens ==
    (rows = 16 /\ cols = 22 /\ ~stop) =>
        /\ Len(emitted) <= 2
        /\ (phase = "done" => Len(emitted) = 2)

\* the search under the min-size selector has returned with four rows in
\* each of its two solutions
C17_Witness ==
    /\ phase = "done" /\ ~stop /\ choose_min
    /\ rows = 16 /\ cols = 22 /\ col_list = NoColList
    /\ Len(emitted) = 2
    /\ \A i \in 1..2 : Cardinality(DOMAIN emitted[i].sol) = 4

\* The list s turned so that it begins with its element c.
CyclicFrom(s, c) ==
    LET p == CHOOSE i \in DOMAIN s : s[i] = c
    IN  SubSeq(s, p, Len(s)) \o SubSeq(s, 1, p - 1)

\* The names of the columns of the row inserted as number key, in ascending
\* order of the columns from column c on and around.
RowNamesFrom(key, c) ==
    LET s == CyclicFrom(Ascending(added[key + 1]), c)
    IN  [i \in DOMAIN s |-> ColumnName(s[i])]

\* C18: the mapping passed to a callback at depth k has one entry for each
\* of the k rows selected at depths 0..k-1 and no other; the key of the
\* entry of depth d is the number the row selected at depth d got when it
\* was inserted, its value lists the names of the columns of that row, the
\* column selected at depth d first and the others in ring order after it.
C18_Projection ==
    op = "callback" =>
        LET e == emitted[Len(emitted)]
            key(d) == heap.indexes[stack[d].row][1]
        IN  /\ Len(stack) = e.k
            /\ Cardinality(DOMAIN e.sol) = e.k
            /\ DOMAIN e.sol = {key(d) : d \in 1..e.k}
            /\ \A d \in 1..e.k :
                  /\ sol_dict[d - 1] = stack[d].row
                  /\ heap.C[stack[d].row] = stack[d].col
                  /\ stack[d].col - 1 \in added[key(d) + 1]
                  /\ e.sol[key(d)] = RowNamesFrom(key(d), stack[d].col - 1)

\* a callback at depth 1 while sol_dict still holds the entry of depth 1 of
\* an earlier branch, for a row of two columns selected by its second
C18_Witness ==
    /\ op = "callback"
    /\ emitted[Len(emitted)].k = 1
    /\ 1 \in DOMAIN sol_dict
    /\ emitted[Len(emitted)].sol = (2 :> <<"B", "A">>)

\* C19: after construction from an integer N there are N headers named
\* C0..C{N-1}, all primary; after construction from a sequence there is one
\* header per entry, in the order and with the names of the entries, primary
\* unless the entry is a pair that says otherwise.  Header i has indexes
\* (-1, i), size 0 and U = D = itself; the ring walked from the matrix header
\* holds exactly the primary headers in declaration order, L running back
\* through it; a secondary header has L = R = itself.
C19_Construction ==
    op = "__init__" =>
        LET columns == arg[1]
            n == columns.n
            numbered == <<"C0", "C1", "C2", "C3", "C4", "C5", "C6", "C7">>
            primary(i) == columns.int \/ ~columns.seq[i].tuple \/ columns.seq[i].primary
            ring == SelectSeq([i \in 1..n |-> i], primary)
            before(i) == IF i = 1 THEN root ELSE ring[i - 1]
            after(i) == IF i = Len(ring) THEN root ELSE ring[i + 1]
        IN  /\ cols = n /\ rows = 0
            /\ Headers(heap) = 1..n /\ Body(heap) = {}
            /\ col_list = [i \in 1..n |-> i]
            /\ (~columns.int => Len(columns.seq) = n)
            /\ \A i \in 1..n :
                  /\ heap.name[i] = (IF columns.int THEN numbered[i]
                                     ELSE columns.seq[i].name)
                  /\ heap.indexes[i] = <<-1, i - 1>>
                  /\ heap.size[i] = 0
                  /\ heap.U[i] = i /\ heap.D[i] = i
                  /\ (~primary(i) => heap.L[i] = i /\ heap.R[i] = i)
            /\ HeaderRing(heap) = ring
            /\ heap.R[root] = after(0) /\ heap.L[root] = before(Len(ring) + 1)
            /\ \A i \in DOMAIN ring :
                  heap.L[ring[i]] = before(i) /\ heap.R[ring[i]] = after(i)

\* a declaration of a secondary column followed by a bare name
C19_Witness ==
    /\ op = "__init__" /\ cols = 2
    /\ ~arg[1].int
    /\ arg[1].seq[1].tuple /\ ~arg[1].seq[1].primary
    /\ ~arg[1].seq[2].tuple
    /\ HeaderRing(heap) = <<2>>
    /\ heap.R[1] = 1

RECURSIVE DownCount(_, _, _, _)
\* The number of cells met following D from cell x until the header c; the
\* walk gives up (-1) after fuel steps.
DownCount(h, c, x, fuel) ==
    IF x = c THEN 0
    ELSE IF fuel = 0 THEN 0 - 1
    ELSE LET rest == DownCount(h, c, h.D[x], fuel - 1)
         IN  IF rest < 0 THEN rest ELSE rest + 1

SizesAccurate(h) ==
    \A c \in Headers(h) :
        h.size[c] = DownCount(h, c, h.D[c], Cardinality(Cells(h)))

RECURSIVE AccurateCovering(_, _, _)
\* The sizes are accurate in h and after each cover of the loop of _search
\* over the cells of row from j on.
AccurateCovering(h, row, j) ==
    /\ SizesAccurate(h)
    /\ (j # row => AccurateCovering(cover(h, h.C[j]), row, h.R[j]))

RECURSIVE AccurateUncovering(_, _, _)
\* The same for the uncovers of the loop that unwinds row.
AccurateUncovering(h, row, j) ==
    /\ SizesAccurate(h)
    /\ (j # row => AccurateUncovering(uncover(h, h.C[j]), row, h.L[j]))

\* C20: the size of every header, in the ring, covered or secondary, is the
\* number of cells met following D from it until it comes back: after
\* construction and every insertion, after every direct cover and uncover,
\* and in a search before and after each single cover and uncover.
C20_SizeAccurate ==
    /\ SizesAccurate(heap)
    /\ (phase = "search" /\ Top.pc = "loop" /\ GenNext(heap, Top) # Top.cell)
          => AccurateCovering(heap, GenNext(heap, Top), heap.R[GenNext(heap, Top)])
    /\ (phase = "search" /\ Top.pc = "ret" /\ ~stop)
          => AccurateUncovering(heap, sol_dict[Top.k], heap.L[sol_dict[Top.k]])

\* in a search: the primary column is covered and still counts its two
\* rows, the secondary column has lost the cell of one of them
C20_Witness ==
    /\ phase = "search" /\ Top.pc = "loop"
    /\ decl = <<TRUE, FALSE>>
    /\ heap.R[root] = root
    /\ Cardinality(Body(heap)) = 3
    /\ heap.size[1] = 2 /\ heap.size[2] = 0

\* The number a row got when it was inserted, from one of its cells.
RowOf(x) == heap.indexes[x][1]

\* The headers a frame of the search has covered and not uncovered: its
\* column, and the columns of the row it is trying.
CoveredByFrame(f) ==
    IF f.pc = "enter" THEN {}
    ELSE {f.col} \cup (IF f.pc = "ret" THEN {c + 1 : c \in added[RowOf(f.row) + 1]}
                       ELSE {})

\* The headers covered now, by direct calls or by a search not stopped.
CoveredNow ==
    {covers[i].c : i \in DOMAIN covers}
    \cup UNION {CoveredByFrame(stack[d]) : d \in DOMAIN stack}

RECURSIVE LeftRingFrom(_, _)
\* The headers met walking L from cell c until the matrix header.
LeftRingFrom(h, c) == IF c = root THEN <<>> ELSE <<c>> \o LeftRingFrom(h, h.L[c])

Reverse(s) == [i \in DOMAIN s |-> s[Len(s) + 1 - i]]

\* C21: the walk along R from the matrix header meets exactly the primary
\* headers not covered now, in declaration order, and the walk along L the
\* same headers backwards: after construction and every insertion, after
\* every direct cover and uncover, of primary and of secondary headers, and
\* in every state of a search that was not stopped.  No secondary header is
\* ever met.
C21_HeaderRing ==
    ~stop =>
        LET uncovered(c) == decl[c] /\ c \notin CoveredNow
            expected == SelectSeq([c \in 1..cols |-> c], uncovered)
        IN  /\ HeaderRing(heap) = expected
            /\ LeftRingFrom(heap, heap.L[root]) = Reverse(expected)
            /\ \A c \in Range(HeaderRing(heap)) : decl[c]

\* the secondary header was covered and uncovered while the primary header
\* stays covered
C21_Witness ==
    /\ op = "uncover" /\ decl = <<TRUE, FALSE>>
    /\ Len(covers) = 1 /\ covers[1].c = 1
    /\ rows = 2

\* Before a search and between the frames of a search.
Quiescent ==
    /\ covers = <<>>
    /\ \/ phase \in {"build", "ready"}
       \/ phase = "search" /\ Top.pc \in {"enter", "ret"}

\* C22 as stated: before a search and between the frames of a search every
\* cell x has x.R.L = x, x.L.R = x, x.U.D = x and x.D.U = x.
C22_InverseLinks == Quiescent => InverseLinks(heap)

\* A cell still linked in its column: met on the D walk from its header.
LinkedInColumn(h, x) == x \in Range(ColumnCells(h, h.C[x]))

\* C22 amended: in every state x.R.L = x and x.L.R = x hold for the matrix
\* header, every header in the header ring, every secondary header and
\* every body cell; x.U.D = x and x.D.U = x hold for every header and every
\* body cell still linked in its column.
C22_InverseLinksLive ==
    /\ \A x \in {root} \cup Range(HeaderRing(heap)) \cup Body(heap)
                \cup {c \in Headers(heap) : ~decl[c]} :
          heap.L[heap.R[x]] = x /\ heap.R[heap.L[x]] = x
    /\ \A x \in Headers(heap) \cup {b \in Body(heap) : LinkedInColumn(heap, b)} :
          heap.D[heap.U[x]] = x /\ heap.U[heap.D[x]] = x

\* between two frames: the first column is covered, the second column is in
\* the ring and has lost its only cell
C22_Witness ==
    /\ phase = "search" /\ Top.pc = "enter" /\ Top.k = 1
    /\ HeaderRing(heap) = <<2>>
    /\ heap.size[2] = 0 /\ Cardinality(Body(heap)) = 3
    /\ ~InverseLinks(heap)

\* C23 as stated: before a search and between the frames of a search, for
\* every body cell b, b.C is a column header and b is met on the D walk from
\* b.C.
C23_ColumnMembership ==
    Quiescent =>
        \A b \in Body(heap) :
            heap.C[b] \in Headers(heap) /\ LinkedInColumn(heap, b)

\* The headers a frame of the search has covered, in the order of its calls:
\* its column, then the other columns of the row it is trying, in ring order.
FrameCovers(f) ==
    IF f.pc = "enter" THEN <<>>
    ELSE IF f.pc = "loop" THEN <<f.col>>
    ELSE LET s == CyclicFrom(Ascending(added[RowOf(f.row) + 1]), f.col - 1)
         IN  [i \in DOMAIN s |-> s[i] + 1]

RECURSIVE StackCovers(_)
StackCovers(d) ==
    IF d > Len(stack) THEN <<>> ELSE FrameCovers(stack[d]) \o StackCovers(d + 1)

\* The headers covered now in the order they were covered.
CoverOrder == [i \in DOMAIN covers |-> covers[i].c] \o StackCovers(1)

\* The column of the row of cell b that was covered first, None if none is
\* covered.
FirstCovered(b) ==
    LET mine == {c + 1 : c \in added[RowOf(b) + 1]}
        hits == {i \in DOMAIN CoverOrder : CoverOrder[i] \in mine}
    IN  IF hits = {} THEN None
        ELSE CoverOrder[CHOOSE i \in hits : \A j \in hits : i <= j]

\* C23 amended: in every state of the builder, of direct covers and of a
\* search not stopped, for every body cell b, b.C is the header of the
\* column b was inserted in, and b is met on the D walk from b.C exactly
\* when no column of its row is covered or the column of its row that was
\* covered first is its own.
C23_ColumnMembershipLive ==
    ~stop =>
        \A b \in Body(heap) :
            /\ heap.C[b] \in Headers(heap)
            /\ heap.C[b] = heap.indexes[b][2] + 1
            /\ LinkedInColumn(heap, b) <=> FirstCovered(b) \in {None, heap.C[b]}

\* direct covers of both columns of a row of two cells: the cell of the
\* column covered first is linked, the other is not
C23_Witness ==
    /\ Len(covers) = 2 /\ covers[1].c = 2 /\ covers[2].c = 1
    /\ \E b, x \in Body(heap) :
          /\ RowOf(b) = RowOf(x)
          /\ heap.C[b] = 2 /\ LinkedInColumn(heap, b)
          /\ heap.C[x] = 1 /\ ~LinkedInColumn(heap, x)

RECURSIVE ReturnsWithin(_, _, _, _)
\* Following the links f from cell y comes to cell x in n steps at most.
ReturnsWithin(f, x, y, n) ==
    IF n = 0 THEN FALSE
    ELSE IF f[y] = x THEN TRUE
    ELSE ReturnsWithin(f, x, f[y], n - 1)

\* C24: in a matrix built from rows of distinct indices in range, finalized
\* or not, with no column covered, following U, D, L or R from any cell
\* comes back to that cell in (rows + 2) * (cols + 2) steps at most.
C24_RingClosure ==
    (phase = "build" /\ covers = <<>>) =>
        \A x \in Cells(heap) :
            LET n == (rows + 2) * (cols + 2)
            IN  /\ ReturnsWithin(heap.U, x, x, n)
                /\ ReturnsWithin(heap.D, x, x, n)
                /\ ReturnsWithin(heap.L, x, x, n)
                /\ ReturnsWithin(heap.R, x, x, n)

\* a finalized matrix of two columns with two rows of two cells
C24_Witness ==
    /\ phase = "build" /\ covers = <<>> /\ col_list = NoColList
    /\ rows = 2 /\ cols = 2
    /\ Cardinality(Body(heap)) = 4

\* The row numbers of the cells of column c, from the top down.
RowsDown(h, c) ==
    LET s == ColumnCells(h, c) IN [i \in DOMAIN s |-> h.indexes[s[i]][1]]

\* C25: an insertion of a row of distinct indices in range, given in any
\* order, creates one cell per index; the cells carry the number of rows
\* inserted before and their index, each is the bottom of its column (the
\* walk along D from every header meets the rows in insertion order), they
\* form a closed L/R ring in ascending order of their columns, and the matrix
\* is the one the insertion of the ascending list gives.
C25_AddSparseRow ==
    [][(op' = "add_sparse_row" /\ err' = "none")
         => LET s == Ascending(Range(arg'))
                n == Len(s)
                first == Cardinality(Cells(heap))
                cell(i) == first + i - 1
                next(i) == IF i = n THEN 1 ELSE i + 1
            IN  /\ n = Len(arg')
                /\ Cells(heap') = Cells(heap) \cup {cell(i) : i \in 1..n}
                /\ rows = Len(added) /\ rows' = rows + 1
                /\ \A i \in 1..n :
                     /\ heap'.indexes[cell(i)] = <<Len(added), s[i]>>
                     /\ heap'.C[cell(i)] = s[i] + 1
                     /\ heap'.D[cell(i)] = s[i] + 1
                     /\ heap'.U[s[i] + 1] = cell(i)
                     /\ heap'.U[cell(i)] = heap.U[s[i] + 1]
                     /\ heap'.R[cell(i)] = cell(next(i))
                     /\ heap'.L[cell(next(i))] = cell(i)
                /\ \A c \in Headers(heap') :
                     LET r == RowsDown(heap', c)
                     IN  \A i, j \in DOMAIN r : i < j => r[i] < r[j]
                /\ heap' = add_sparse_row(heap, col_list, rows, s, TRUE).heap
    ]_vars

\* the second row was given as <<1, 0>> and its column 0 holds both rows
C25_Witness ==
    /\ op = "add_sparse_row" /\ err = "none"
    /\ arg = <<1, 0>> /\ rows = 2
    /\ RowsDown(heap, 1) = <<0, 1>>

\* C26: whenever a frame is at the head of its row loop, on entry and after
\* the unwind of each row, the vertical ring of its column is what it was
\* right after the cover of the column; the rows tried so far are the first
\* cells of that ring in order, the next row is the cell after them, and the
\* loop ends, with the uncover of the column, exactly when all were tried.
C26_RowLoop ==
    (phase = "search" /\ Top.pc = "loop") =>
        /\ ColumnCells(heap, Top.col) = Top.ring
        /\ Len(Top.tried) <= Len(Top.ring)
        /\ Top.tried = SubSeq(Top.ring, 1, Len(Top.tried))
        /\ \A i, j \in DOMAIN Top.ring : i # j => Top.ring[i] # Top.ring[j]
        /\ IF Top.tried = Top.ring
           THEN GenNext(heap, Top) = Top.cell /\ Top.cell = Top.col
           ELSE GenNext(heap, Top) = Top.ring[Len(Top.tried) + 1]

\* two of the three rows of the column were tried and unwound
C26_Witness ==
    /\ phase = "search" /\ Top.pc = "loop" /\ ~stop
    /\ Len(Top.ring) = 3 /\ Len(Top.tried) = 2

\* C27: a frame whose selected column has size 0 finds the column's ring
\* empty after the cover, and its only step from the head of the loop is the
\* uncover and return: no row was tried, no solution was emitted since it
\* entered, and the matrix is again the one it found.  On a matrix without
\* rows that has a primary column, min_column gives a header of size 0 and
\* the search returns without error, without a callback and with the matrix
\* it was given.
C27_EmptyColumn ==
    [][/\ (op' = "choose" /\ err' = "none" /\ heap.size[Top'.col] = 0)
            => (Top'.ring = <<>> /\ heap'.D[Top'.col] = Top'.col)
       /\ (phase = "search" /\ Top.pc = "loop" /\ heap.size[Top.col] = 0)
            => /\ op' = "exhausted"
               /\ Top.tried = <<>>
               /\ heap' = Top.found
               /\ emitted' = emitted /\ Len(emitted) = Top.seen
               /\ stack' = Front(stack)
       /\ (op' = "choose" /\ rows = 0 /\ choose_min)
            => (err' = "none" /\ heap.size[Top'.col] = 0 /\ decl[Top'.col])
       /\ (phase = "search" /\ phase' = "done" /\ rows = 0 /\ \E c \in 1..cols : decl[c])
            => /\ err' = "none" /\ op' = "exhausted"
               /\ Len(emitted') = calls[Len(calls)].at
               /\ heap' = heap0
    ]_vars

\* the search of a matrix of two primary columns and no row has returned
C27_Witness ==
    /\ phase = "done" /\ op = "exhausted" /\ err = "none"
    /\ rows = 0 /\ cols = 2 /\ decl[1] /\ decl[2]
    /\ emitted = <<>> /\ heap = heap0

\* The cells a cover of header c takes out of other columns: the cells of
\* the rows that have a cell in column c, except that cell.
Removed(h, c) ==
    {j \in Body(h) : /\ h.C[j] # c
                     /\ \E i \in Range(ColumnCells(h, c)) : h.indexes[i][1] = h.indexes[j][1]}

\* What a cover of header c, from matrix h to matrix g, leaves alone.
CoverFrame(h, g, c) ==
    LET own == {c} \cup Range(ColumnCells(h, c))
    IN  /\ g.size[c] = h.size[c] /\ g.L[c] = h.L[c] /\ g.R[c] = h.R[c]
        /\ \A x \in own : g.U[x] = h.U[x] /\ g.D[x] = h.D[x]
        /\ ColumnCells(g, c) = ColumnCells(h, c)
        /\ \A x \in Cells(h) :
             /\ g.L[x] # h.L[x] => (x = h.R[c] /\ g.L[x] = h.L[c])
             /\ g.R[x] # h.R[x] => (x = h.L[c] /\ g.R[x] = h.R[c])
             /\ g.U[x] # h.U[x] => \E j \in Removed(h, c) : x = g.D[j]
             /\ g.D[x] # h.D[x] => \E j \in Removed(h, c) : x = g.U[j]
        /\ \A d \in DOMAIN h.size :
             g.size[d] = h.size[d] - Cardinality({j \in Removed(h, c) : h.C[j] = d})

\* C28: a cover, an uncover and every step of a search keep the set of
\* cells, every cell's C, indexes and name, and the L and R of every body
\* cell.  A cover of header H, called directly or by a frame on the column
\* it selected, keeps besides H's size, L, R and vertical ring; L changes
\* only at H's right neighbour and R only at its left neighbour, U and D
\* only next to cells taken out of other columns, and sizes only of the
\* columns of those cells.
C28_Frame ==
    [][/\ (op' \in {"cover", "uncover"} \/ phase = "search")
            => /\ Cells(heap') = Cells(heap)
               /\ DOMAIN heap'.size = DOMAIN heap.size
               /\ heap'.C = heap.C
               /\ heap'.indexes = heap.indexes
               /\ heap'.name = heap.name
               /\ heap'.is_first = heap.is_first
               /\ \A b \in Body(heap) : heap'.L[b] = heap.L[b] /\ heap'.R[b] = heap.R[b]
       /\ op' = "cover" => CoverFrame(heap, heap', covers'[Len(covers')].c)
       /\ (op' = "choose" /\ err' = "none") => CoverFrame(heap, heap', Top'.col)
    ]_vars

\* a header of the ring was covered directly, and its column held a row
\* with a cell in another column
C28_Witness ==
    /\ op = "cover" /\ Len(covers) = 1
    /\ LET c == covers[1].c
       IN  /\ Removed(heap, c) # {}
           /\ heap.L[heap.R[c]] # c
           /\ \E d \in Headers(heap) : heap.size[d] < covers[1].before.size[d]

\* C29: no step of a search raises.  A frame that has just been entered
\* calls the callback exactly when the matrix header is alone in its ring;
\* otherwise it calls the selector, whose result is a header of the ring
\* under either selector, never the EmptyDLMatrix exception.
C29_NoError ==
    [][phase = "search"
         => /\ err = "none" /\ err' = "none"
            /\ Top.pc = "enter" =>
                 /\ heap.R[root] = root => op' = "callback"
                 /\ heap.R[root] # root =>
                      /\ op' = "choose"
                      /\ Top'.col \in Range(HeaderRing(heap))
                      /\ min_column(heap) # None
                      /\ \A n \in 0..(cols - 1) : random_column(heap, n) # None
            /\ op' = "callback" => (Top.pc = "enter" /\ heap.R[root] = root)
            /\ op' = "choose" => (Top.pc = "enter" /\ heap.R[root] # root)
    ]_vars

\* under the random selector a frame at depth 2 has called the callback
C29_Witness ==
    /\ op = "callback" /\ err = "none" /\ ~choose_min
    /\ emitted # <<>> /\ emitted[Len(emitted)].k = 2
    /\ emitted[Len(emitted)].heap.R[root] = root

\* The cell at k steps along R from the matrix header, and the cell after it
\* when that is the matrix header: the R ring is the matrix header followed
\* by the header ring, k steps along it end at position k modulo its length.
StepsFromRoot(h, k) ==
    LET ring == <<root>> \o HeaderRing(h)
        p == k % Len(ring)
    IN  IF p = 0 THEN ring[2] ELSE ring[p + 1]

\* C30: random_column, having drawn n in 0..cols-1 on a non-empty ring,
\* returns the header at n steps along R from the matrix header, or the next
\* one when that is the matrix header.
C30_RandomWalk ==
    [][(op' = "random_column" /\ heap.R[root] # root)
         => result' = StepsFromRoot(heap, arg'[1])]_vars

\* C30 amended: it returns the header at n steps along R from the first
\* header of the ring, that is n + 1 steps from the matrix header, or the
\* next one when that is the matrix header.
C30_RandomWalkFromFirst ==
    [][(op' = "random_column" /\ heap.R[root] # root)
         => /\ err' = "none"
            /\ arg'[1] \in 0..(cols - 1)
            /\ result' = StepsFromRoot(heap, arg'[1] + 1)]_vars

\* with both headers in the ring and 1 drawn the second header is returned
C30_Witness ==
    /\ op = "random_column" /\ err = "none"
    /\ HeaderRing(heap) = <<1, 2>>
    /\ arg = <<1>>
    /\ result = 2

\* C31: while the callback has not returned true, under either selector,
\* any two mappings passed to it have different key sets: the number of
\* invocations is the number of distinct solutions emitted.
C31_NoDuplicate ==
    ~stop =>
        /\ \A i, j \in DOMAIN emitted :
             i # j => DOMAIN emitted[i].sol # DOMAIN emitted[j].sol
        /\ Len(emitted) = Cardinality(KeySets)

\* a full search under the random selector has emitted three solutions
C31_Witness ==
    /\ phase = "done" /\ ~stop /\ ~choose_min
    /\ Len(emitted) = 3

\* A mapping passed to the callback with the lists of names taken as sets:
\* where a list starts depends on the column the row was reached through.
SolutionOf(e) == [r \in DOMAIN e.sol |-> Range(e.sol[r])]

\* C32: a full search under the min-size selector emits the same set of
\* solutions as a full search under the random selector has emitted on the
\* same matrix, whatever numbers were drawn.
C32_SameSolutions ==
    (/\ phase = "done" /\ ~stop
     /\ Len(calls) = 2 /\ calls[2].rebuilt
     /\ ~calls[1].choose_min /\ calls[2].choose_min)
        => LET n == calls[2].at
           IN  {SolutionOf(emitted[i]) : i \in 1..n}
                 = {SolutionOf(emitted[i]) : i \in (n + 1)..Len(emitted)}

\* both runs emitted two solutions, in different orders
C32_Witness ==
    /\ phase = "done" /\ ~stop /\ Len(calls) = 2 /\ calls[2].rebuilt
    /\ ~calls[1].choose_min /\ calls[2].choose_min
    /\ calls[2].at = 2 /\ Len(emitted) = 4
    /\ SolutionOf(emitted[3]) = SolutionOf(emitted[2])
    /\ SolutionOf(emitted[3]) # SolutionOf(emitted[1])

\* The emissions of the invocation going on or ended last.
ThisRun == (calls[Len(calls)].at + 1)..Len(emitted)

\* No row emitted by this run holds secondary columns only.
OnlyPrimaryRows ==
    calls # <<>> =>
        \A i \in ThisRun : \A r \in DOMAIN emitted[i].sol : HasPrimary(r)

\* The mapping sol with every row number above q lowered by one.
Renumbered(sol, q) ==
    [r \in {IF k > q THEN k - 1 ELSE k : k \in DOMAIN sol} |->
        IF r >= q THEN sol[r + 1] ELSE sol[r]]

\* C33 as stated: a row of secondary columns only is in no mapping passed
\* to the callback, and the run on the matrix without that row makes the
\* same sequence of emissions as the run on the matrix with it.
C33_SecondaryRowInert ==
    /\ OnlyPrimaryRows
    /\ (Len(calls) = 2 /\ calls[2].rebuilt) =>
          LET n == calls[2].at
          IN  /\ Len(emitted) <= 2 * n
              /\ \A j \in 1..(Len(emitted) - n) : emitted[n + j].sol = emitted[j].sol
              /\ phase = "done" => Len(emitted) = 2 * n

\* C33 amended: the same, the emissions of the two runs being equal once
\* the numbers of the rows inserted after that row are lowered by one.
C33_SecondaryRowInertRenumbered ==
    /\ OnlyPrimaryRows
    /\ (Len(calls) = 2 /\ calls[2].rebuilt) =>
          LET n == calls[2].at
              q == calls[2].without
          IN  /\ Len(emitted) <= 2 * n
              /\ \A j \in 1..(Len(emitted) - n) :
                   /\ q \notin DOMAIN emitted[j].sol
                   /\ emitted[n + j].sol = Renumbered(emitted[j].sol, q)
                   /\ emitted[n + j].ret = emitted[j].ret
                   /\ emitted[n + j].k = emitted[j].k
              /\ phase = "done" => Len(emitted) = 2 * n

\* the first of three rows held a secondary column only; with it the rows 1
\* and 2 were emitted, without it the rows 0 and 1
C33_Witness ==
    /\ phase = "done" /\ Len(calls) = 2 /\ calls[2].rebuilt
    /\ calls[2].without = 0
    /\ Len(emitted) = 4
    /\ DOMAIN emitted[1].sol = {1} /\ DOMAIN emitted[2].sol = {2}
    /\ DOMAIN emitted[3].sol = {0} /\ DOMAIN emitted[4].sol = {1}

NoPrimary == \A c \in 1..cols : ~decl[c]

\* C34: on a matrix without a primary column, with no column at all or
\* with secondary columns and any rows, the one step of the search is the
\* callback on the empty mapping, after which the solver has returned: no
\* selector is called, nothing is raised, the matrix is not touched, and the
\* callback has been invoked exactly once.
C34_NoPrimaryColumn ==
    /\ [][(phase = "search" /\ NoPrimary)
            => /\ op' = "callback" /\ err' = "none"
               /\ phase' = "done"
               /\ emitted = <<>> /\ Len(emitted') = 1
               /\ DOMAIN emitted'[1].sol = {}
               /\ heap' = heap]_vars
    /\ []((phase = "done" /\ NoPrimary)
            => (Len(emitted) = 1 /\ DOMAIN emitted[1].sol = {} /\ emitted[1].k = 0))

\* the search of a matrix of two secondary columns and two rows has returned
C34_Witness ==
    /\ phase = "done" /\ op = "callback"
    /\ cols = 2 /\ ~decl[1] /\ ~decl[2] /\ rows = 2
    /\ Len(emitted) = 1 /\ DOMAIN emitted[1].sol = {}

PrimaryCount == Cardinality({c \in 1..cols : decl[c]})

\* C35: under either selector and whatever the callback returns, an
\* invocation of the solver returns, and the depth k of every frame of
\* _search, the i-th frame having depth i - 1, is at most the number of
\* primary columns.
C35_Terminates ==
    /\ [](\A i \in DOMAIN stack : stack[i].k = i - 1 /\ stack[i].k <= PrimaryCount)
    /\ [](phase = "search" => SearchEnabled)
    /\ (phase = "search") ~> (phase = "done")

\* a frame at depth 2 on a matrix of two primary columns
C35_Witness ==
    /\ phase = "search" /\ Len(stack) = 3 /\ Top.k = 2
    /\ PrimaryCount = 2 /\ rows = 3

\* C36: every cell created by an add_sparse_row that raised nothing has a
\* column index inside 0..cols-1, and its header carries the same index
\* with row -1.
C36_IndexAgrees ==
    [][(op' = "add_sparse_row" /\ err' = "none")
         => \A b \in Body(heap') \ Body(heap) :
              /\ heap'.indexes[b][1] = rows
              /\ heap'.indexes[b][2] \in 0..(cols - 1)
              /\ heap'.C[b] \in Headers(heap')
              /\ heap'.indexes[heap'.C[b]] = <<-1, heap'.indexes[b][2]>>]_vars

\* C37: an add_sparse_row that raises IndexError leaves the matrix as it
\* was: every cell that existed has its links, every header its size, the
\* row count is the same, and no cell of the rejected row is reached from a
\* header.
C37_FailedAddUnchanged ==
    [][(op' = "add_sparse_row" /\ err' = "IndexError")
         => /\ rows' = rows /\ cols' = cols /\ col_list' = col_list
            /\ \A x \in Cells(heap) :
                 /\ heap'.U[x] = heap.U[x] /\ heap'.D[x] = heap.D[x]
                 /\ heap'.L[x] = heap.L[x] /\ heap'.R[x] = heap.R[x]
            /\ \A c \in DOMAIN heap.size : heap'.size[c] = heap.size[c]
            /\ \A c \in Headers(heap') :
                 Range(ColumnCells(heap', c)) \subseteq Cells(heap)]_vars

====
